---------------------------- MODULE Spec2Model ----------------------------
(***************************************************************************)
(* A model of mcp-logic: the Prover9 output classification of              *)
(* LogicEngine._run_prover, the life cycle of a tool invocation            *)
(* (handle_call_tool, _create_input_file, _run_prover) and the DSL         *)
(* synthesizer / parser pair (_create_input_file, parse_content).          *)
(*                                                                         *)
(* Text is modelled as a sequence of tokens.  Every token stands for the   *)
(* literal characters of its name; the marker strings the code searches    *)
(* for are single tokens, and the remaining tokens cannot be concatenated  *)
(* into a marker, so substring tests on the text are tests on the tokens.  *)
(***************************************************************************)
EXTENDS Naturals, Integers, Sequences, FiniteSets, TLC

VARIABLES
    cls,      \* the classification fixture and what _run_prover returned for it
    rt,       \* the premises and goal synthesized, the text, and what was parsed
    mace4,    \* engine.mace4 is not None
    pc,       \* where each tool invocation is in handle_call_tool
    running,  \* the invocation the event loop is executing, or 0
    req,      \* what the handler found in the request it is executing
    prob,     \* the premises and conclusion handed to _create_input_file
    path,     \* the temporary input file of the invocation, or 0
    child,    \* the prover child process of the invocation
    captured, \* stdout and stderr the child has written
    readc,    \* the input text the child read
    outcome,  \* what the try / except of _run_prover produced
    unlinked, \* how input_path.unlink() ended
    resp,     \* the response of handle_call_tool
    files     \* the temporary directory: path -> text

svars == <<mace4, pc, running, req, prob, path, child, captured, readc,
           outcome, unlinked, resp, files>>
vars == <<cls, rt, svars>>

-----------------------------------------------------------------------------
(* Bounds *)

\* longest captured stdout, in tokens
MaxOut == 4
\* longest captured stderr, in tokens
MaxErr == 1

\* most premises of a synthesized problem
MaxPremises == 2
\* tool invocations the transport has in flight at once
NInv == 2
\* temporary files that may be left behind by failed deletions or writes
MaxLeaks == 1

(* Program constants *)

\* def _run_prover(self, input_path, timeout: int = 60)
DefaultTimeout == 60

-----------------------------------------------------------------------------
(* Python string primitives on token sequences *)

SeqsUpTo(S, n) == UNION {[1..k -> S] : k \in 0..n}

\* characters matched by str.strip() and by \s
IsSpace(t) == t \in {" ", "\n"}

\* str.strip()
Strip(s) ==
    LET keep == {i \in 1..Len(s) : ~IsSpace(s[i])}
    IN  IF keep = {} THEN <<>>
        ELSE LET lo == CHOOSE i \in keep : \A j \in keep : i <= j
                 hi == CHOOSE i \in keep : \A j \in keep : j <= i
             IN  SubSeq(s, lo, hi)

\* marker in text, for a marker that is one token
Contains(s, marker) == \E i \in 1..Len(s) : s[i] = marker

\* positions of a one-token marker
Occurrences(s, marker) == {i \in 1..Len(s) : s[i] = marker}

MinOf(S) == CHOOSE i \in S : \A j \in S : i <= j

\* text.split(marker), as the sequence of pieces, for a one-token marker
RECURSIVE SplitOn(_, _)
SplitOn(s, marker) ==
    IF Occurrences(s, marker) = {} THEN <<s>>
    ELSE LET i == MinOf(Occurrences(s, marker))
         IN  <<SubSeq(s, 1, i - 1)>> \o SplitOn(SubSeq(s, i + 1, Len(s)), marker)

\* number of "=" characters a token consists of, 0 for any other token
EqChars(t) == IF t = "=" THEN 1 ELSE IF t = "====" THEN 4 ELSE 0

\* number of "=" characters in the unbroken run of "=" starting at token i
RECURSIVE EqRunFrom(_, _)
EqRunFrom(s, i) ==
    IF i > Len(s) \/ EqChars(s[i]) = 0 THEN 0
    ELSE EqChars(s[i]) + EqRunFrom(s, i + 1)

\* text.split("====")[0]: the text before the first four consecutive "="
BeforeRule(s) ==
    LET hits == {i \in 1..Len(s) : EqRunFrom(s, i) >= 4}
    IN  IF hits = {} THEN s ELSE SubSeq(s, 1, MinOf(hits) - 1)

-----------------------------------------------------------------------------
(* LogicEngine._run_prover: what the call returns for a process outcome *)

StdoutTokens == {"THEOREM PROVED", "SEARCH FAILED", "PROOF =", "=", "====", " ", "x"}
StderrTokens == {"Fatal error", "x"}
ProcessStatus == {"normal", "timeout", "launch_failure", "io_failure"}

NoValue == [result |-> "none"]
Returned(v) == [raised |-> "none", value |-> v]
Raised(e) == [raised |-> e, value |-> NoValue]

\* result.stdout.split("PROOF =")[1].split("====")[0].strip()
ExtractProof(stdout) ==
    LET pieces == SplitOn(stdout, "PROOF =")
    IN  IF Len(pieces) < 2 THEN Raised("IndexError")
        ELSE Returned(Strip(BeforeRule(pieces[2])))

\* The mutant of the chain: the stderr test is made before the "SEARCH FAILED" test.
ClassifyFatalFirst(stdout, stderr) ==
    IF Contains(stdout, "THEOREM PROVED")
    THEN LET p == ExtractProof(stdout)
         IN  IF p.raised # "none" THEN Raised(p.raised)
             ELSE Returned([result |-> "proved", proof |-> p.value,
                            complete_output |-> stdout])
    ELSE IF Contains(stderr, "Fatal error")
    THEN Returned([result |-> "error", reason |-> "Syntax error", error |-> stderr])
    ELSE IF Contains(stdout, "SEARCH FAILED")
    THEN Returned([result |-> "unprovable", reason |-> "Proof search failed",
                   complete_output |-> stdout])
    ELSE Returned([result |-> "error", reason |-> "Unexpected output",
                   output |-> stdout, error |-> stderr])

\* the if / elif chain over the captured streams (the body of the try)
Classify(stdout, stderr) ==
    IF Contains(stdout, "THEOREM PROVED")
    THEN LET p == ExtractProof(stdout)
         IN  IF p.raised # "none" THEN Raised(p.raised)
             ELSE Returned([result |-> "proved", proof |-> p.value,
                            complete_output |-> stdout])
    ELSE IF Contains(stdout, "SEARCH FAILED")
    THEN Returned([result |-> "unprovable", reason |-> "Proof search failed",
                   complete_output |-> stdout])
    ELSE IF Contains(stderr, "Fatal error")
    THEN Returned([result |-> "error", reason |-> "Syntax error", error |-> stderr])
    ELSE Returned([result |-> "error", reason |-> "Unexpected output",
                   output |-> stdout, error |-> stderr])

\* except subprocess.TimeoutExpired
TimeoutResult(timeout) ==
    [result |-> "timeout", reason |-> <<"Proof search exceeded", timeout, "seconds">>]

\* except Exception as e: {"result": "error", "reason": str(e)}
ExceptionResult(e) == [result |-> "error", reason |-> <<"str(e)", e>>]

\* the try block: subprocess.run, then the classification
TryBody(status, stdout, stderr, timeout) ==
    CASE status = "normal"         -> Classify(stdout, stderr)
      [] status = "timeout"        -> Raised("TimeoutExpired")
      [] status = "launch_failure" -> Raised("OSError")
      [] status = "io_failure"     -> Raised("UnicodeDecodeError")

\* The mutant of the handlers: TimeoutExpired is handled as any other exception.
HandleTimeoutAsError(body, timeout) ==
    IF body.raised = "none" THEN body ELSE Returned(ExceptionResult(body.raised))

\* The mutant of the handlers: no generic "except Exception" clause.
HandleOnlyTimeout(body, timeout) ==
    IF body.raised = "TimeoutExpired" THEN Returned(TimeoutResult(timeout)) ELSE body

\* the except clauses of _run_prover applied to the outcome of the try block
Handle(body, timeout) ==
    IF body.raised = "none" THEN body
    ELSE IF body.raised = "TimeoutExpired" THEN Returned(TimeoutResult(timeout))
    ELSE Returned(ExceptionResult(body.raised))

\* no call of _run_prover has produced anything yet
NoOutcome == Raised("pending")

\* what _run_prover hands to its caller (before the finally clause runs)
RunProverResult(status, stdout, stderr, timeout) ==
    Handle(TryBody(status, stdout, stderr, timeout), timeout)

-----------------------------------------------------------------------------
(* LogicEngine._create_input_file: the synthesized DSL text *)

\* p if p.endswith(".") else p + "."
Terminated(f) == IF Len(f) > 0 /\ f[Len(f)] = "." THEN f ELSE f \o <<".">>

\* "\n".join(lines)
RECURSIVE JoinLines(_)
JoinLines(lines) ==
    IF Len(lines) = 0 THEN <<>>
    ELSE IF Len(lines) = 1 THEN lines[1]
    ELSE lines[1] \o <<"\n">> \o JoinLines(Tail(lines))

\* The mutant of the synthesizer: the empty line between the blocks is left
\* out and the premises are written last first.
CreateInputContentNoBlank(premises, goal) ==
    JoinLines(<< <<"formulas(assumptions)", ".">> >>
              \o [k \in 1..Len(premises) |-> Terminated(premises[Len(premises) + 1 - k])]
              \o << <<"end_of_list", ".">>, <<"formulas(goals)", ".">>,
                    Terminated(goal), <<"end_of_list", ".">> >>)

\* content = [...]; input_content = "\n".join(content)
CreateInputContent(premises, goal) ==
    JoinLines(<< <<"formulas(assumptions)", ".">> >>
              \o [k \in 1..Len(premises) |-> Terminated(premises[k])]
              \o << <<"end_of_list", ".">>, <<>>, <<"formulas(goals)", ".">>,
                    Terminated(goal), <<"end_of_list", ".">> >>)

-----------------------------------------------------------------------------
(* handle_call_tool and the life cycle of one prove invocation *)

Inv == 1..NInv
\* names tempfile.mkstemp can come up with: the event loop has at most one
\* input file in use, beside the files left behind
Paths == 1..(MaxLeaks + 1)

ToolNames == {"prove", "check-well-formed", "find-model", "find-counterexample",
              "verify-commutativity", "get-category-axioms", "no-such-tool"}

\* the argument bag of a request: None, or which keys it holds and, for
\* an input_file, what parse_prover9_file does with the file
ArgBags == {"none", "empty", "premises", "premises+conclusion", "statements",
            "file:goal", "file:no-goal", "file:missing", "file:unreadable",
            "category-keys"}

\* what the collaborator called by the handler does (validate_formulas,
\* Mace4Wrapper, CategoricalHelpers): a good answer, a negative one, an exception
Collab == {"ok", "negative", "raises"}

HasFile(bag) == bag \in {"file:goal", "file:no-goal", "file:missing", "file:unreadable"}
FileParses(bag) == bag \in {"file:goal", "file:no-goal"}

\* the problems a prove request can carry (premises, conclusion)
Problems == {[premises |-> << <<"a">> >>, goal |-> <<"b">>],
             [premises |-> <<>>, goal |-> <<"a">>]}
NoProblem == [premises |-> <<>>, goal |-> <<>>]

\* what the prover child can have written when it is waited for or killed
Fixtures == {[stdout |-> <<"PROOF =", "x", "====", "THEOREM PROVED">>, stderr |-> <<>>],
             [stdout |-> <<"THEOREM PROVED">>, stderr |-> <<>>],
             [stdout |-> <<"SEARCH FAILED">>, stderr |-> <<"Fatal error">>]}
NoText == [stdout |-> <<>>, stderr |-> <<>>]
NoFile == <<"no such file">>

\* a JSON document returned to the transport
Json(kind, detail) == [kind |-> kind, detail |-> detail, propagated |-> FALSE]
\* an exception leaving handle_call_tool
Propagated(e) == [kind |-> "none", detail |-> e, propagated |-> TRUE]
NoResp == [kind |-> "none", detail |-> "none", propagated |-> FALSE]

NoReq == [name |-> "none", goal |-> "n/a", validation |-> "n/a"]

\* _extract_formulas_from_input: "raise:<type>", "absent" or "resolved"
ExtractFormulas(bag) ==
    IF bag = "none" THEN "raise:TypeError"
    ELSE IF HasFile(bag)
         THEN IF ~FileParses(bag) THEN "raise:ValueError"
              ELSE IF bag = "file:goal" THEN "resolved" ELSE "absent"
    ELSE IF bag = "premises+conclusion" THEN "resolved" ELSE "absent"

\* _extract_premises_from_input: "raise:<type>" or "premises"
ExtractPremises(bag) ==
    IF bag = "none" THEN "raise:TypeError"
    ELSE IF HasFile(bag) /\ ~FileParses(bag) THEN "raise:ValueError"
    ELSE "premises"

IsRaise(x) == x \in {"raise:TypeError", "raise:ValueError", "raise:KeyError",
                     "raise:Exception"}

\* validate_formulas(all_formulas)["valid"], or the collaborator's exception
Validate(collab) ==
    CASE collab = "ok" -> "valid" [] collab = "negative" -> "invalid"
      [] OTHER -> "raise:Exception"

\* One step of the body: return a JSON document, raise, or go on to the proof run.
Ret(kind, detail) == [next |-> "return", resp |-> Json(kind, detail)]
Exc(e) == [next |-> "raise", resp |-> Json("none", e)]
Run == [next |-> "run", resp |-> NoResp]

\* The mutant of the prove branch: the validation result is not looked at.
ProveBranchUnvalidated(x, v) ==
    IF IsRaise(x) THEN Exc(x)
    ELSE IF x = "absent" THEN Ret("result", "error: No conclusion found in input")
    ELSE IF IsRaise(v) THEN Exc(v)
    ELSE Run

\* if name == "prove": from the extracted formulas and the validation result
\* to the first return, raise, or the call of _create_input_file
ProveBranch(x, v) ==
    IF IsRaise(x) THEN Exc(x)
    ELSE IF x = "absent" THEN Ret("result", "error: No conclusion found in input")
    ELSE IF IsRaise(v) THEN Exc(v)
    ELSE IF v = "invalid" THEN Ret("result", "syntax_error")
    ELSE Run

\* The body of the try of handle_call_tool up to its first return, raise or
\* call of _create_input_file.
Body(name, bag, collab, hasMace4) ==
    CASE name = "prove" -> ProveBranch(ExtractFormulas(bag), Validate(collab))
      [] name = "check-well-formed" ->
            IF bag = "none" THEN Exc("raise:TypeError")
            ELSE IF HasFile(bag) /\ ~FileParses(bag)
                 THEN Ret("result", "error: Failed to parse input file")
            ELSE IF ~HasFile(bag) /\ bag # "statements" THEN Exc("raise:KeyError")
            ELSE IF collab = "raises" THEN Exc("raise:Exception")
            ELSE Ret("validation", collab)
      [] name = "find-model" ->
            IF ~hasMace4 THEN Ret("error", "Mace4 not available")
            ELSE IF IsRaise(ExtractPremises(bag)) THEN Exc(ExtractPremises(bag))
            ELSE IF collab = "raises" THEN Exc("raise:Exception")
            ELSE Ret("model", collab)
      [] name = "find-counterexample" ->
            IF ~hasMace4 THEN Ret("error", "Mace4 not available")
            ELSE LET x == ExtractFormulas(bag) IN
                 IF IsRaise(x) THEN Exc(x)
                 ELSE IF x = "absent"
                      THEN Ret("result", "error: No conclusion found in input")
                 ELSE IF collab = "raises" THEN Exc("raise:Exception")
                 ELSE Ret("model", collab)
      [] name \in {"verify-commutativity", "get-category-axioms"} ->
            IF bag = "none" THEN Exc("raise:TypeError")
            ELSE IF bag # "category-keys" THEN Exc("raise:KeyError")
            ELSE IF collab = "raises" THEN Exc("raise:Exception")
            ELSE Ret("categorical", "ok")
      [] OTHER -> Exc("raise:ValueError")

\* What the request held, as the prove handler met it: whether a goal was
\* resolved and what the validator answered (not asked without a goal).
ReqFacts(name, bag, collab) ==
    LET x == IF name = "prove" THEN ExtractFormulas(bag) ELSE "n/a"
    IN  [name |-> name,
         goal |-> IF IsRaise(x) THEN "failed" ELSE x,
         validation |-> IF x = "resolved" THEN Validate(collab) ELSE "n/a"]

\* The mutant of the boundary: the exception leaves the handler.
CatchNothing(e) == Propagated(e)

\* The mutant of mkstemp: a name is drawn without looking at the directory.
MkstempAnyName(fs) == Paths

\* The mutant of the cleanup: the finally clause deletes nothing.
UnlinkSkipped(fs, p, fate) == fs

\* except Exception as e: return json {"error": str(e), "type": type(e).__name__}
CatchAll(e) == Json("error", e)

\* tempfile.mkstemp: a name no file of the directory has
MkstempNames(fs) == Paths \ DOMAIN fs

\* input_path.unlink() inside try / except (FileNotFoundError, PermissionError, OSError)
UnlinkInput(fs, p, fate) ==
    IF fate = "ok" THEN [q \in DOMAIN fs \ {p} |-> fs[q]] ELSE fs

\* the value _run_prover returns once its finally clause has run
AfterFinally(out, fate) == out

\* files no invocation is going to delete
Leaked == {p \in DOMAIN files : \A i \in Inv : path[i] # p \/ pc[i] = "cleaned"}
MayLeak == Cardinality(Leaked) < MaxLeaks

\* nothing synthesized or parsed
NoParse == [premises |-> <<>>, conclusion |-> <<>>]
RtIdle == [phase |-> "none", premises |-> <<>>, goal |-> <<>>, text |-> <<>>,
           parsed |-> NoParse]

ClsIdle == [phase |-> "none", status |-> "none", stdout |-> <<>>, stderr |-> <<>>,
            outcome |-> NoOutcome]

ServerInit ==
    /\ mace4 \in BOOLEAN
    /\ pc = [i \in Inv |-> "idle"]
    /\ running = 0
    /\ req = [i \in Inv |-> NoReq]
    /\ prob = [i \in Inv |-> NoProblem]
    /\ path = [i \in Inv |-> 0]
    /\ child = [i \in Inv |-> "none"]
    /\ captured = [i \in Inv |-> NoText]
    /\ readc = [i \in Inv |-> NoFile]
    /\ outcome = [i \in Inv |-> NoOutcome]
    /\ unlinked = [i \in Inv |-> "none"]
    /\ resp = [i \in Inv |-> NoResp]
    /\ files = <<>>

Init == cls = ClsIdle /\ rt = RtIdle /\ ServerInit

\* The transport reads a request and schedules its handler on the event loop.
Receive(i) ==
    /\ pc[i] = "idle"
    /\ pc' = [pc EXCEPT ![i] = "pending"]
    /\ UNCHANGED <<cls, rt, mace4, running, req, prob, path, child, captured, readc,
                   outcome, unlinked, resp, files>>

\* The event loop can run a handler: asyncio.run(main(...)) drives one loop,
\* the loop runs one coroutine at a time, and handle_call_tool never awaits
\* (subprocess.run blocks the loop's thread).
LoopFree == running = 0

\* handle_call_tool starts and runs to its first return, raise or file creation.
Start(i) ==
    /\ pc[i] = "pending"
    /\ LoopFree
    /\ \E name \in ToolNames, bag \in ArgBags, collab \in Collab, p \in Problems :
         LET b == Body(name, bag, collab, mace4) IN
         /\ req' = [req EXCEPT ![i] = ReqFacts(name, bag, collab)]
         /\ IF b.next = "run"
            THEN /\ pc' = [pc EXCEPT ![i] = "ready"]
                 /\ prob' = [prob EXCEPT ![i] = p]
                 /\ resp' = resp
            ELSE /\ pc' = [pc EXCEPT ![i] = "responded"]
                 /\ resp' = [resp EXCEPT ![i] =
                               IF b.next = "raise" THEN CatchAll(b.resp.detail) ELSE b.resp]
                 /\ prob' = prob
    /\ running' = i
    /\ UNCHANGED <<cls, rt, mace4, path, child, captured, readc, outcome,
                   unlinked, files>>

\* _create_input_file: mkstemp, then the write; a failing write leaves the
\* file behind and its OSError is caught by the handler.
CreateInputFile(i) ==
    /\ pc[i] = "ready"
    /\ \E p \in MkstempNames(files) :
         \/ /\ files' = [q \in DOMAIN files \cup {p} |->
                           IF q = p THEN CreateInputContent(prob[i].premises, prob[i].goal)
                           ELSE files[q]]
            /\ path' = [path EXCEPT ![i] = p]
            /\ pc' = [pc EXCEPT ![i] = "created"]
            /\ resp' = resp
         \/ /\ MayLeak
            /\ files' = [q \in DOMAIN files \cup {p} |-> IF q = p THEN <<>> ELSE files[q]]
            /\ resp' = [resp EXCEPT ![i] = CatchAll("raise:OSError")]
            /\ pc' = [pc EXCEPT ![i] = "responded"]
            /\ path' = path
    /\ UNCHANGED <<cls, rt, mace4, running, req, prob, child, captured, readc, outcome,
                   unlinked>>

\* subprocess.run starts the child, or fails to.
Launch(i) ==
    /\ pc[i] = "created"
    /\ \/ /\ child' = [child EXCEPT ![i] = "running"]
          /\ pc' = [pc EXCEPT ![i] = "waiting"]
          /\ outcome' = outcome
       \/ /\ outcome' = [outcome EXCEPT ![i] =
                           RunProverResult("launch_failure", <<>>, <<>>, DefaultTimeout)]
          /\ pc' = [pc EXCEPT ![i] = "ran"]
          /\ child' = child
    /\ UNCHANGED <<cls, rt, mace4, running, req, prob, path, captured, readc,
                   unlinked, resp, files>>

\* The child reads its input file (-f input_path) and writes its report.
ChildWork(i) ==
    /\ child[i] = "running"
    /\ pc[i] = "waiting"
    /\ readc' = [readc EXCEPT ![i] =
                   IF path[i] \in DOMAIN files THEN files[path[i]] ELSE NoFile]
    /\ \E f \in Fixtures : captured' = [captured EXCEPT ![i] = f]
    /\ child' = [child EXCEPT ![i] = "worked"]
    /\ UNCHANGED <<cls, rt, mace4, pc, running, req, prob, path, outcome,
                   unlinked, resp, files>>

\* The search ends, the child exits and subprocess.run returns the completed
\* process, or fails decoding its output; the streams are classified.
Complete(i) ==
    /\ pc[i] = "waiting"
    /\ child[i] = "worked"
    /\ child' = [child EXCEPT ![i] = "exited"]
    /\ captured' = [captured EXCEPT ![i] = NoText]
    /\ readc' = [readc EXCEPT ![i] = NoFile]
    /\ \E st \in {"normal", "io_failure"} :
         outcome' = [outcome EXCEPT ![i] =
                       RunProverResult(st, captured[i].stdout, captured[i].stderr,
                                       DefaultTimeout)]
    /\ pc' = [pc EXCEPT ![i] = "ran"]
    /\ UNCHANGED <<cls, rt, mace4, running, req, prob, path, unlinked, resp, files>>

\* The timeout of subprocess.run elapses while the child has not exited.
TimerElapse(i) ==
    /\ pc[i] = "waiting"
    /\ child[i] \in {"running", "worked"}
    /\ pc' = [pc EXCEPT ![i] = "expired"]
    /\ UNCHANGED <<cls, rt, mace4, running, req, prob, path, child, captured,
                   readc, outcome, unlinked, resp, files>>

\* subprocess.run kills the child and raises TimeoutExpired, which is handled.
Kill(i) ==
    /\ pc[i] = "expired"
    /\ child' = [child EXCEPT ![i] = "killed"]
    /\ outcome' = [outcome EXCEPT ![i] =
                     RunProverResult("timeout", captured[i].stdout, captured[i].stderr,
                                     DefaultTimeout)]
    /\ captured' = [captured EXCEPT ![i] = NoText]
    /\ readc' = [readc EXCEPT ![i] = NoFile]
    /\ pc' = [pc EXCEPT ![i] = "ran"]
    /\ UNCHANGED <<cls, rt, mace4, running, req, prob, path, unlinked, resp, files>>

\* The finally clause: unlink the input file, whatever the try produced;
\* _run_prover returns.
Finally(i) ==
    /\ pc[i] = "ran"
    /\ \E fate \in {"ok", "OSError"} :
         /\ fate = "OSError" => MayLeak
         /\ files' = UnlinkInput(files, path[i], fate)
         /\ unlinked' = [unlinked EXCEPT ![i] = fate]
         /\ outcome' = [outcome EXCEPT ![i] = AfterFinally(outcome[i], fate)]
    /\ pc' = [pc EXCEPT ![i] = "cleaned"]
    /\ UNCHANGED <<cls, rt, mace4, running, req, prob, path, child, captured, readc,
                   resp>>

\* handle_call_tool returns json.dumps(results).
Respond(i) ==
    /\ pc[i] = "cleaned"
    /\ resp' = [resp EXCEPT ![i] =
                  IF outcome[i].raised = "none" THEN Json("result", outcome[i].value.result)
                  ELSE CatchAll(outcome[i].raised)]
    /\ pc' = [pc EXCEPT ![i] = "responded"]
    /\ path' = [path EXCEPT ![i] = 0]
    /\ UNCHANGED <<cls, rt, mace4, running, req, prob, child, captured, readc,
                   outcome, unlinked, files>>

\* The handler's coroutine is over: the response goes to the transport and
\* the event loop takes up the next scheduled handler.
Deliver(i) ==
    /\ pc[i] = "responded"
    /\ ~resp[i].propagated
    /\ pc' = [pc EXCEPT ![i] = "idle"]
    /\ req' = [req EXCEPT ![i] = NoReq]
    /\ prob' = [prob EXCEPT ![i] = NoProblem]
    /\ child' = [child EXCEPT ![i] = "none"]
    /\ captured' = [captured EXCEPT ![i] = NoText]
    /\ readc' = [readc EXCEPT ![i] = NoFile]
    /\ outcome' = [outcome EXCEPT ![i] = NoOutcome]
    /\ unlinked' = [unlinked EXCEPT ![i] = "none"]
    /\ resp' = [resp EXCEPT ![i] = NoResp]
    /\ running' = 0
    /\ UNCHANGED <<cls, rt, mace4, path, files>>

\* The steps of subprocess.run(timeout=...) and of the handlers around it that
\* need nothing from the child: the timer runs out, the child is killed, the
\* finally clause runs.
Step(i) == TimerElapse(i) \/ Kill(i) \/ Finally(i)

Next ==
    \E i \in Inv :
        \/ Receive(i) \/ Start(i) \/ CreateInputFile(i) \/ Launch(i)
        \/ ChildWork(i) \/ Complete(i) \/ TimerElapse(i)
        \/ Kill(i) \/ Finally(i) \/ Respond(i) \/ Deliver(i)

Spec == Init /\ [][Next]_vars

\* The timer of subprocess.run and the handler's own steps are taken when they
\* can be; the child's exit, the transport's traffic and the scheduling of
\* new handlers are not assumed.
FairSpec == Spec /\ \A i \in Inv : WF_vars(Step(i))


-----------------------------------------------------------------------------
(* Classification fixtures: every process outcome with every captured text *)

\* A run that completed normally captured some stdout and stderr; a run that
\* timed out or failed left no CompletedProcess, so no text reaches the chain.
ClsInit ==
    /\ cls \in {[phase |-> "captured", status |-> "normal", stdout |-> so, stderr |-> se,
              outcome |-> NoOutcome] :
                so \in SeqsUpTo(StdoutTokens, MaxOut),
                se \in SeqsUpTo(StderrTokens, MaxErr)}
         \cup {[phase |-> "captured", status |-> st, stdout |-> <<>>, stderr |-> <<>>,
              outcome |-> NoOutcome] : st \in ProcessStatus \ {"normal"}}
    /\ rt = RtIdle
    /\ ServerInit

\* one call of _run_prover on the fixture
ClsRun ==
    /\ cls.phase = "captured"
    /\ cls' = [cls EXCEPT !.phase = "returned",
                          !.outcome = RunProverResult(cls.status, cls.stdout,
                                                      cls.stderr, DefaultTimeout)]
    /\ UNCHANGED <<rt, svars>>

ClsNext == ClsRun

SpecClassify == ClsInit /\ [][ClsNext]_vars

-----------------------------------------------------------------------------
(* Prover9FileParser.parse_content *)

\* for line in content.split('\n'): line = line.strip();
\* if line and not line.startswith('%'): lines.append(line)
RECURSIVE KeptLines(_)
KeptLines(lines) ==
    IF Len(lines) = 0 THEN <<>>
    ELSE LET line == Strip(lines[1])
         IN  (IF Len(line) > 0 /\ line[1] # "%" THEN <<line>> ELSE <<>>)
             \o KeptLines(Tail(lines))

\* content = '\n'.join(lines), comments and blank lines removed
StripComments(content) == JoinLines(KeptLines(SplitOn(content, "\n")))

\* re.search(header\.\s*(.*?)\s*end_of_list\., content, DOTALL | IGNORECASE)
\* followed by group(1).strip(): <<block>> for a match, <<>> for none.
\* The leftmost header followed by an end marker matches, and the lazy
\* group ends at the first end marker after it.
FindBlock(content, header) ==
    LET starts == {p \in 1..(Len(content) - 1) :
                      content[p] = header /\ content[p + 1] = "."}
        ends(p) == {e \in (p + 2)..(Len(content) - 1) :
                      content[e] = "end_of_list" /\ content[e + 1] = "."}
        hits == {p \in starts : ends(p) # {}}
    IN  IF hits = {} THEN <<>>
        ELSE LET p == MinOf(hits)
             IN  << Strip(SubSeq(content, p + 2, MinOf(ends(p)) - 1)) >>

\* the index after the whitespace run starting at i
RECURSIVE SkipSpace(_, _)
SkipSpace(s, i) == IF i <= Len(s) /\ IsSpace(s[i]) THEN SkipSpace(s, i + 1) ELSE i

\* re.split(r'\.\s*', block)
RECURSIVE SplitDots(_)
SplitDots(block) ==
    IF Occurrences(block, ".") = {} THEN <<block>>
    ELSE LET i == MinOf(Occurrences(block, "."))
         IN  <<SubSeq(block, 1, i - 1)>>
             \o SplitDots(SubSeq(block, SkipSpace(block, i + 1), Len(block)))

\* formula.lower().startswith('end')
StartsWithEnd(f) == Len(f) > 0 /\ f[1] \in {"end", "end_of_list"}

\* formula = formula.strip(); if formula and not formula.lower().startswith('end')
RECURSIVE KeptFormulas(_)
KeptFormulas(fragments) ==
    IF Len(fragments) = 0 THEN <<>>
    ELSE LET f == Strip(fragments[1])
         IN  (IF Len(f) > 0 /\ ~StartsWithEnd(f) THEN <<f>> ELSE <<>>)
             \o KeptFormulas(Tail(fragments))

\* parse_content: the premises, and the conclusion as <<goal>> or <<>> for None
ParseContent(content) ==
    LET text    == StripComments(content)
        assume  == FindBlock(text, "formulas(assumptions)")
        goals   == FindBlock(text, "formulas(goals)")
        kept    == IF goals = <<>> THEN <<>> ELSE KeptFormulas(SplitDots(goals[1]))
    IN  [premises   |-> IF assume = <<>> THEN <<>>
                        ELSE KeptFormulas(SplitDots(assume[1])),
         conclusion |-> IF kept = <<>> THEN <<>> ELSE <<kept[1]>>]

-----------------------------------------------------------------------------
(* Synthesize, then parse: _create_input_file's text given to parse_content *)

\* Formulas a caller can pass: plain ones, one with an inner blank, one whose
\* text begins with "end", one with a period inside, one with a period and a
\* blank inside, one that already carries its terminator, and one whose
\* terminator is followed by a blank.
FormulaPool == {<<"a">>, <<"b">>, <<"a", " ", "b">>, <<"end", "a">>,
                <<"a", ".", "b">>, <<"a", ".", " ", "b">>, <<"a", ".">>,
                <<"a", ".", " ">>}

RtInit ==
    /\ rt \in {[phase |-> "input", premises |-> ps, goal |-> g, text |-> <<>>,
                parsed |-> NoParse] :
                  ps \in SeqsUpTo(FormulaPool, MaxPremises), g \in FormulaPool}
    /\ cls = ClsIdle
    /\ ServerInit

\* _create_input_file writes the synthesized text
Synthesize ==
    /\ rt.phase = "input"
    /\ rt' = [rt EXCEPT !.phase = "written",
                        !.text = CreateInputContent(rt.premises, rt.goal)]
    /\ UNCHANGED <<cls, svars>>

\* parse_content reads it back
Parse ==
    /\ rt.phase = "written"
    /\ rt' = [rt EXCEPT !.phase = "parsed", !.parsed = ParseContent(rt.text)]
    /\ UNCHANGED <<cls, svars>>

RtNext == Synthesize \/ Parse

SpecRoundTrip == RtInit /\ [][RtNext]_vars

-----------------------------------------------------------------------------
(* DSL files given to parse_content: every file of a few lines *)

MaxLines == 5

AssumptionsHeader == <<"formulas(assumptions)", ".">>
GoalsHeader == <<"formulas(goals)", ".">>
EndOfList == <<"end_of_list", ".">>

\* The lines a DSL file is made of: the two block headers, the end marker,
\* plain formulas, a formula whose text begins with "end", a formula with a
\* period inside, and a comment line.
LinePool == {AssumptionsHeader, GoalsHeader, EndOfList,
             <<"a", ".">>, <<"b", ".">>, <<"end", "a", ".">>,
             <<"a", ".", "b", ".">>, <<"%", "a", ".">>}

\* content = f.read(): a file of up to MaxLines lines
PfInit ==
    /\ rt \in {[phase |-> "file", lines |-> ls, text |-> JoinLines(ls),
                premises |-> <<>>, goal |-> <<>>, parsed |-> NoParse] :
                  ls \in SeqsUpTo(LinePool, MaxLines)}
    /\ cls = ClsIdle
    /\ ServerInit
    /\ mace4

\* parse_file: parse_content(content)
ParseFile ==
    /\ rt.phase = "file"
    /\ rt' = [rt EXCEPT !.phase = "file-parsed", !.parsed = ParseContent(rt.text)]
    /\ UNCHANGED <<cls, svars>>

PfNext == ParseFile

SpecParse == PfInit /\ [][PfNext]_vars

-----------------------------------------------------------------------------
(* Claims about the classification, checked under SpecClassify *)

\* the fields each variant of the result carries
VariantFields(tag, reason) ==
    CASE tag = "proved"     -> {"result", "proof", "complete_output"}
      [] tag = "unprovable" -> {"result", "reason", "complete_output"}
      [] tag = "timeout"    -> {"result", "reason"}
      [] tag = "error"      ->
            IF reason = "Syntax error" THEN {"result", "reason", "error"}
            ELSE IF reason = "Unexpected output" THEN {"result", "reason", "output", "error"}
            ELSE {"result", "reason"}
      [] OTHER              -> {}

\* C2: _run_prover is total.  For every process outcome (launch failure, I/O
\* failure, timeout, normal completion) and every captured stdout and stderr
\* the call returns, without raising, exactly one structured result whose
\* tag is proved, unprovable, timeout or error (the syntax error being the
\* error variant with reason "Syntax error"), shaped as that variant.
C2_RunProverTotal ==
    cls.phase = "returned" =>
        /\ cls.outcome.raised = "none"
        /\ cls.outcome.value.result \in {"proved", "unprovable", "timeout", "error"}
        /\ DOMAIN cls.outcome.value =
              VariantFields(cls.outcome.value.result,
                            IF cls.outcome.value.result = "error"
                            THEN cls.outcome.value.reason ELSE "")
        /\ (cls.status = "timeout") <=> (cls.outcome.value.result = "timeout")
        /\ cls.status \in {"launch_failure", "io_failure"} =>
              cls.outcome.value.result = "error"

\* C2 witness: the classification itself raised (the "THEOREM PROVED" marker
\* without a "PROOF =" marker) and the call still returned an error result.
C2_Witness ==
    /\ cls.phase = "returned"
    /\ cls.status = "normal"
    /\ Contains(cls.stdout, "THEOREM PROVED")
    /\ ~Contains(cls.stdout, "PROOF =")
    /\ cls.outcome.raised = "none"
    /\ cls.outcome.value.result = "error"

\* the text between the first "PROOF =" marker and the next rule of "=" after it
ClaimedProof(stdout) ==
    LET first == MinOf(Occurrences(stdout, "PROOF ="))
        rest  == SubSeq(stdout, first + 1, Len(stdout))
    IN  Strip(BeforeRule(rest))

\* C6: whenever the process completes normally and stdout contains
\* "THEOREM PROVED", the result is proved, whatever stderr and the other
\* markers are; its proof is the trimmed text between the first "PROOF ="
\* marker and the next run of "=" after it, and complete_output is stdout.
C6_ProvedWheneverMarker ==
    (cls.phase = "returned" /\ cls.status = "normal"
        /\ Contains(cls.stdout, "THEOREM PROVED")) =>
        /\ cls.outcome.raised = "none"
        /\ cls.outcome.value.result = "proved"
        /\ cls.outcome.value.complete_output = cls.stdout
        /\ Contains(cls.stdout, "PROOF =") =>
              cls.outcome.value.proof = ClaimedProof(cls.stdout)

\* C7: when the process completes normally and stdout has no "THEOREM
\* PROVED", the first matching rule wins: "SEARCH FAILED" in stdout gives
\* unprovable even with "Fatal error" in stderr; otherwise "Fatal error" in
\* stderr gives the syntax error carrying stderr; otherwise the result is
\* the error "Unexpected output" carrying raw stdout and raw stderr.
C7_FirstMatchWins ==
    (cls.phase = "returned" /\ cls.status = "normal"
        /\ ~Contains(cls.stdout, "THEOREM PROVED")) =>
        /\ cls.outcome.raised = "none"
        /\ cls.outcome.value =
              IF Contains(cls.stdout, "SEARCH FAILED")
              THEN [result |-> "unprovable", reason |-> "Proof search failed",
                    complete_output |-> cls.stdout]
              ELSE IF Contains(cls.stderr, "Fatal error")
              THEN [result |-> "error", reason |-> "Syntax error",
                    error |-> cls.stderr]
              ELSE [result |-> "error", reason |-> "Unexpected output",
                    output |-> cls.stdout, error |-> cls.stderr]

\* C7 witness: both "SEARCH FAILED" and "Fatal error" are present and the
\* call returned unprovable.
C7_Witness ==
    /\ cls.phase = "returned"
    /\ cls.status = "normal"
    /\ ~Contains(cls.stdout, "THEOREM PROVED")
    /\ Contains(cls.stdout, "SEARCH FAILED")
    /\ Contains(cls.stderr, "Fatal error")
    /\ cls.outcome.value.result = "unprovable"

-----------------------------------------------------------------------------
(* Claims about the life cycle of an invocation, checked under Spec / FairSpec *)

\* the input file of invocation i exists and is to be deleted by i
InUse(i) == pc[i] \in {"created", "waiting", "expired", "ran"}

\* C1: on every exit path of _run_prover (any classified outcome, timeout,
\* launch or I/O failure, an exception raised while classifying) the finally
\* clause tries to delete the input file; when the deletion succeeds the
\* file is gone as the call returns, and a failing deletion neither changes
\* the value returned nor raises.
C1_InputFileDeleted ==
    [][\A i \in Inv :
         (pc[i] = "ran" /\ pc'[i] = "cleaned") =>
            /\ unlinked'[i] \in {"ok", "OSError"}
            /\ unlinked'[i] = "ok" => path[i] \notin DOMAIN files'
            /\ outcome[i].raised = "none"
            /\ outcome'[i] = outcome[i]]_vars

\* C1 witness: a run that timed out has returned with its input file deleted.
C1_Witness ==
    \E i \in Inv :
        /\ pc[i] = "cleaned"
        /\ outcome[i].value.result = "timeout"
        /\ unlinked[i] = "ok"
        /\ path[i] \notin DOMAIN files

\* C3: once the timeout has elapsed with the child still running, the child
\* is killed and _run_prover returns the timeout result carrying the bound,
\* whatever the child had written; a wait for the child always ends.
C3_TimeoutReturns ==
    /\ \A i \in Inv :
         (pc[i] = "expired") ~>
            (/\ pc[i] = "cleaned"
             /\ child[i] = "killed"
             /\ outcome[i] = Returned([result |-> "timeout",
                   reason |-> <<"Proof search exceeded", DefaultTimeout, "seconds">>]))
    /\ \A i \in Inv : (pc[i] = "waiting") ~> (pc[i] = "cleaned")

\* C3 witness: the timeout elapsed on a child that had already written
\* "THEOREM PROVED" but had not exited.
C3_Witness ==
    \E i \in Inv :
        /\ pc[i] = "expired"
        /\ child[i] = "worked"
        /\ Contains(captured[i].stdout, "THEOREM PROVED")

\* C4: while one invocation waits for its child process, another pending
\* invocation can still start.
C4_OthersProceed ==
    \A i, j \in Inv :
        (i # j /\ pc[i] \in {"waiting", "expired"} /\ pc[j] = "pending") =>
            ENABLED Start(j)

\* C5: every invocation writes its input to a temporary file of its own:
\* the name it gets is not the name of a file that exists, its file holds
\* the text it synthesized until it deletes it, its child reads that text,
\* and its cleanup leaves every other file as it was.
C5_OwnInputFile ==
    /\ [](\A i \in Inv :
            InUse(i) =>
                /\ path[i] \in DOMAIN files
                /\ files[path[i]] = CreateInputContent(prob[i].premises, prob[i].goal)
                /\ \A j \in Inv \ {i} : path[j] # path[i])
    /\ [](\A i \in Inv :
            child[i] = "worked" =>
                readc[i] = CreateInputContent(prob[i].premises, prob[i].goal))
    /\ [][\A i \in Inv :
            /\ (pc[i] = "ready" /\ pc'[i] = "created") => path'[i] \notin DOMAIN files
            /\ (pc[i] = "ran" /\ pc'[i] = "cleaned") =>
                  \A p \in DOMAIN files \ {path[i]} :
                      p \in DOMAIN files' /\ files'[p] = files[p]]_vars

\* C5 witness: a child has read its input while a file left behind by an
\* earlier invocation is still in the directory.
C5_Witness ==
    \E i \in Inv :
        /\ child[i] = "worked"
        /\ pc[i] = "waiting"
        /\ Leaked # {}
        /\ path[i] \notin Leaked

\* the handler of i is past the validation, on the way to or in the proof run
PastValidation(i) ==
    \/ pc[i] \in {"ready", "created", "waiting", "expired", "ran", "cleaned"}
    \/ path[i] # 0
    \/ child[i] # "none"

\* C8: prove creates an input file and spawns a child only once a goal is
\* resolved and the validator has answered valid; with no goal the response
\* is a structured error, with an invalid answer it is the structured
\* "syntax_error", and in both cases no file is made and no child spawned.
C8_ValidatedBeforeSpawn ==
    \A i \in Inv :
        /\ PastValidation(i) =>
              req[i].name = "prove" /\ req[i].goal = "resolved"
                  /\ req[i].validation = "valid"
        /\ (pc[i] = "responded" /\ req[i].name = "prove" /\ req[i].goal = "absent") =>
              resp[i] = Json("result", "error: No conclusion found in input")
        /\ (pc[i] = "responded" /\ req[i].name = "prove"
                /\ req[i].validation = "invalid") =>
              resp[i] = Json("result", "syntax_error")

\* C8 witness: a prove request with an invalid formula has been answered
\* without a child process.
C8_Witness ==
    \E i \in Inv :
        /\ pc[i] = "responded"
        /\ req[i].name = "prove"
        /\ req[i].validation = "invalid"
        /\ child[i] = "none"
        /\ resp[i].detail = "syntax_error"

\* C9: whatever the operation name and the argument bag, and whatever the
\* file or the collaborator does, handle_call_tool ends with a structured
\* JSON response and lets no exception out; after it the response can be
\* sent, and the server goes on taking and starting requests.
C9_AlwaysStructured ==
    \A i \in Inv :
        /\ ~resp[i].propagated
        /\ pc[i] = "responded" =>
              /\ resp[i].kind \in {"result", "error", "validation", "model", "categorical"}
              /\ ENABLED Deliver(i)
        /\ pc[i] = "idle" => ENABLED Receive(i)
        /\ (pc[i] = "pending" /\ running = 0) => ENABLED Start(i)

\* C9 witness: an unknown operation name has been answered with the JSON
\* error document.
C9_Witness ==
    \E i \in Inv :
        /\ pc[i] = "responded"
        /\ req[i].name = "no-such-tool"
        /\ resp[i] = Json("error", "raise:ValueError")

-----------------------------------------------------------------------------
(* Claims about the synthesizer and the parser, checked under SpecRoundTrip *)

\* the formula carries no trailing terminator
Unterminated(f) == Len(f) = 0 \/ f[Len(f)] # "."

\* C10: round trip.  For any premise list and goal whose formulas carry no
\* trailing terminator, parsing the synthesized text returns the same
\* premises in the same order and the same goal.
C10_RoundTrip ==
    (/\ rt.phase = "parsed"
     /\ Unterminated(rt.goal)
     /\ \A k \in 1..Len(rt.premises) : Unterminated(rt.premises[k])) =>
        /\ rt.parsed.premises = rt.premises
        /\ rt.parsed.conclusion = <<rt.goal>>


\* The lines of the synthesized text, and the line written for a formula.
WrittenLines == SplitOn(rt.text, "\n")

\* C11: the synthesized text is the newline-joined sequence of the
\* assumptions header, one line per premise in the given order (the premise,
\* with or without an appended terminator), the end marker, one empty line, the
\* goals header, the goal line and the end marker, with no trailing newline.
C11_SynthesizedLayout ==
    rt.phase \in {"written", "parsed"} =>
        LET n == Len(rt.premises) IN
        /\ Len(WrittenLines) = n + 6
        /\ WrittenLines[1] = <<"formulas(assumptions)", ".">>
        /\ \A k \in 1..n :
              WrittenLines[1 + k] \in {rt.premises[k], rt.premises[k] \o <<".">>}
        /\ WrittenLines[n + 2] = <<"end_of_list", ".">>
        /\ WrittenLines[n + 3] = <<>>
        /\ WrittenLines[n + 4] = <<"formulas(goals)", ".">>
        /\ WrittenLines[n + 5] \in {rt.goal, rt.goal \o <<".">>}
        /\ WrittenLines[n + 6] = <<"end_of_list", ".">>
        /\ rt.text[Len(rt.text)] # "\n"

\* C11 witness: a text was synthesized from two different premises.
C11_Witness ==
    /\ rt.phase = "written"
    /\ Len(rt.premises) = 2
    /\ rt.premises[1] # rt.premises[2]
    /\ Len(rt.text) > 0

\* A line carries exactly one terminator: it ends with "." and what precedes
\* that "." does not itself end, trailing blanks aside, with a ".".
ExactlyOneTerminator(line) ==
    /\ Len(line) > 0
    /\ line[Len(line)] = "."
    /\ LET body == Strip(SubSeq(line, 1, Len(line) - 1))
       IN  Len(body) = 0 \/ body[Len(body)] # "."

\* C12: every formula line of the synthesized text, each premise's and the
\* goal's, carries exactly one terminator.
C12_OneTerminator ==
    rt.phase = "written" =>
        LET n == Len(rt.premises) IN
        /\ \A k \in 1..n : ExactlyOneTerminator(WrittenLines[1 + k])
        /\ ExactlyOneTerminator(WrittenLines[n + 5])


\* The file's lines that are not comments, and where a header stands in them.
IsLive(line) == line[1] # "%"
LiveLines == SelectSeq(rt.lines, IsLive)
HeaderAt(h) == {p \in 1..Len(LiveLines) : LiveLines[p] = h}

\* The end marker of the block opened at line p: the first end marker after
\* p with no other header or end marker in between.
OwnEnd(p) ==
    {q \in (p + 1)..Len(LiveLines) :
        /\ LiveLines[q] = EndOfList
        /\ \A r \in (p + 1)..(q - 1) :
              LiveLines[r] \notin {AssumptionsHeader, GoalsHeader, EndOfList}}

\* The first block under header h is there and has its own end marker.
Closed(h) == HeaderAt(h) # {} /\ OwnEnd(MinOf(HeaderAt(h))) # {}

\* The formulas of that block in file order: each line without its final ".".
BlockFormulas(h) ==
    LET p == MinOf(HeaderAt(h))
        q == MinOf(OwnEnd(p))
    IN  [k \in 1..(q - p - 1) |-> SubSeq(LiveLines[p + k], 1, Len(LiveLines[p + k]) - 1)]

\* C13: a file whose assumptions block has no end marker of its own parses
\* to an empty premise sequence, whatever else the file holds; a goals block
\* without its end marker parses to an absent goal.
C13_UnclosedBlockNotFound ==
    rt.phase = "file-parsed" =>
        /\ (HeaderAt(AssumptionsHeader) # {} /\ ~Closed(AssumptionsHeader)) =>
              rt.parsed.premises = <<>>
        /\ (HeaderAt(GoalsHeader) # {} /\ ~Closed(GoalsHeader)) =>
              rt.parsed.conclusion = <<>>

\* The file with every goal of the first goals block but the first removed.
OneGoalLines ==
    LET p == MinOf(HeaderAt(GoalsHeader))
        q == MinOf(OwnEnd(p))
    IN  SubSeq(LiveLines, 1, p + 1) \o SubSeq(LiveLines, q, Len(LiveLines))

\* C14: when the first goals block holds two or more formulas, the goal
\* returned is the first formula of the block, and the premises are those
\* returned for the same file with the other goals removed.
C14_FirstGoalOnly ==
    (/\ rt.phase = "file-parsed"
     /\ Closed(GoalsHeader)
     /\ Len(BlockFormulas(GoalsHeader)) >= 2) =>
        /\ rt.parsed.conclusion = <<BlockFormulas(GoalsHeader)[1]>>
        /\ rt.parsed.premises = ParseContent(JoinLines(OneGoalLines)).premises

\* C15: the premises returned are the formulas of the first assumptions
\* block in file order, none split at a period inside it and none dropped.
C15_PremisesOfBlock ==
    (rt.phase = "file-parsed" /\ Closed(AssumptionsHeader)) =>
        rt.parsed.premises = BlockFormulas(AssumptionsHeader)

=============================================================================
